---------------------------- MODULE Spec2Model ----------------------------
(***************************************************************************)
(* Model of the MTR backtesting pipeline of HSx2/autoTrading:              *)
(*   MTRIndicator.calculate        (src/unnamed/part_000)                  *)
(*   TradingStrategy.generateSignals (src/src/strategies/TradingStrategy.js)*)
(*   BacktestEngine.backtest       (src/src/engine/BacktestEngine.js)      *)
(*   TradingSimulator stage calls  (src/src/TradingSimulator.js)           *)
(*   the stage endpoints           (src/src/server.js)                     *)
(*                                                                         *)
(* The three array passes are causal (the output for bar i reads bars      *)
(* <= i only), so each pass is modelled as one action per loop iteration   *)
(* and the bar with index i is drawn when the first pass reaches it.       *)
(*                                                                         *)
(* Numbers.  close/high/low are whole dollars.  The engine's money         *)
(* (capital, commission, pnl, equity) is kept in cents, so that the        *)
(* default commissionPerShare (0.01) and taxRate (0.25) act on integers    *)
(* exactly; rates are kept in percent.  Band values are exact rationals    *)
(* [n, d]; NaN is a value of its own that fails every comparison.          *)
(***************************************************************************)
EXTENDS Integers, Sequences, FiniteSets, TLC

VARIABLES
    n,              \* close.length of the series being processed
    supplied,       \* history: the options objects the constructors were given
    scenario,       \* the input: "arbitrary", or the name of a fixed series
    calls,          \* generateSignals() calls made on the strategy object
    firstClose,     \* marketData.close[0] (0 before bar 0 is read)
    i,              \* index of the bar the passes are at
    pc,             \* next step: "data", "ind", "sig", "bt", "done"
    bars,           \* the trailing window of input bars, newest last
    indicator,      \* the MTRIndicator object (constructor fields)
    currentBaseline,      \* calculate(): the loop's locals
    currentUpper,
    currentLower,
    daysSinceLastChange,
    baselineChanges,      \* calculate(): the changes logged so far
    mtr,            \* the indicator's output for the bars of the window
    startBands,     \* history: the output at startIdx (NaN before it)
    driftBounded,   \* history: no close from startIdx on is more than 25%
                    \*          away from the initial baseline
    strategy,       \* the TradingStrategy object (configuration + runtime state)
    signals,        \* generateSignals: the array built so far
    signal,         \* signals[i], as backtest() reads it
    fresh,          \* history: the same call made on a newly constructed
                    \*          strategy (its object and its signals array)
    engine,         \* the BacktestEngine object (constructor fields)
    capital,        \* backtest: cash, in cents
    position,       \* backtest: 0 flat, 1 long, < 0 short
    shares,         \* backtest: shares held
    entryPrice,     \* backtest: fill price of the opening trade, in cents
    trades,         \* backtest: the ledger
    equityCurve,    \* backtest: one sample per processed bar, in cents
    sim,            \* the TradingSimulator object (stage outputs and components)
    outcome,        \* the last TradingSimulator call and how it ended
    response        \* the server's response to the last stage request

vars == <<n, supplied, scenario, calls, firstClose, fresh, i, pc, bars, indicator, currentBaseline, currentUpper, currentLower,
          daysSinceLastChange, baselineChanges, mtr, startBands, driftBounded,
          strategy, signals, signal, engine,
          capital, position, shares, entryPrice, trades, equityCurve,
          sim, outcome, response>>

simVars == <<sim, outcome, response>>

indVars == <<indicator, currentBaseline, currentUpper, currentLower,
             daysSinceLastChange, baselineChanges, mtr, startBands, driftBounded>>

btVars == <<capital, position, shares, entryPrice, trades, equityCurve>>

-----------------------------------------------------------------------------
(* Bounds of the model *)

\* longest series of the runs that keep the whole ledger and equity curve
MaxBars == 4

\* closes (whole dollars) the engine runs draw from
EnginePrices == {13, 20, 30, 40}

\* longest series of the runs of the indicator alone: a baseline change needs
\* more than 30 bars after startIdx
MaxIndicatorBars == 35

\* longest series of the runs of the whole pipeline
MaxPipelineBars == 5

\* stage outputs one TradingSimulator session stores
MaxStageOutputs == 5

\* generateSignals() calls made on one TradingStrategy object
MaxCalls == 2

\* serenityWindow, atrWindow and stabilityConfirmation of the runs that get
\* past startIdx within these lengths
SmallWindow == 2

-----------------------------------------------------------------------------
(* Numeric helpers *)

CentsPerDollar == 100

Max(a, b) == IF a >= b THEN a ELSE b
Min(a, b) == IF a <= b THEN a ELSE b
Abs(a) == IF a < 0 THEN -a ELSE a

\* The NaN entry of a signals array (isNaN(signal)).
NaNSignal == 99

Last(s) == s[Len(s)]

\* `options.f || d`: an absent or falsy (0) option takes the default.
OrDefault(options, f, d) ==
    IF f \in DOMAIN options /\ options[f] # 0 THEN options[f] ELSE d

-----------------------------------------------------------------------------
(* Exact rationals with NaN, for band values *)

RECURSIVE GCD(_, _)
GCD(a, b) == IF b = 0 THEN a ELSE GCD(b, a % b)

\* n / d in lowest terms, d > 0
Rat(num, den) ==
    LET g == GCD(Abs(num), Abs(den))
        sg == IF den < 0 THEN -1 ELSE 1
    IN  [n |-> sg * (num \div g), d |-> sg * (den \div g)]

R(k) == [n |-> k, d |-> 1]
NaN == [n |-> 0, d |-> 0]
isNaN(x) == x.d = 0

\* the least common denominator of two numbers
LCD(a, b) == (a.d \div GCD(a.d, b.d)) * b.d

RAdd(a, b) ==
    IF isNaN(a) \/ isNaN(b) THEN NaN
    ELSE LET l == LCD(a, b)
         IN  Rat(a.n * (l \div a.d) + b.n * (l \div b.d), l)
RSub(a, b) ==
    IF isNaN(a) \/ isNaN(b) THEN NaN
    ELSE LET l == LCD(a, b)
         IN  Rat(a.n * (l \div a.d) - b.n * (l \div b.d), l)
RMul(a, b) == IF isNaN(a) \/ isNaN(b) THEN NaN ELSE Rat(a.n * b.n, a.d * b.d)
\* a / b for b # 0
RDiv(a, b) == IF isNaN(a) \/ isNaN(b) THEN NaN ELSE Rat(a.n * b.d, a.d * b.n)
RAbs(a) == [a EXCEPT !.n = Abs(@)]

\* Comparisons: every comparison with NaN is false.
RLt(a, b) == ~isNaN(a) /\ ~isNaN(b) /\ a.n * b.d < b.n * a.d
RLe(a, b) == ~isNaN(a) /\ ~isNaN(b) /\ a.n * b.d <= b.n * a.d
RGt(a, b) == RLt(b, a)
RGe(a, b) == RLe(b, a)
REq(a, b) == ~isNaN(a) /\ ~isNaN(b) /\ a.n * b.d = b.n * a.d

-----------------------------------------------------------------------------
(* BacktestEngine *)

\* constructor(options): money in cents, commissionPerShare in cents per
\* share, taxRate in percent.
BacktestEngine(options) ==
    [ initialCapital     |-> OrDefault(options, "initialCapital", 10000 * CentsPerDollar),
      commissionPerShare |-> OrDefault(options, "commissionPerShare", 1),
      minCommission      |-> OrDefault(options, "minCommission", 7 * CentsPerDollar),
      taxRate            |-> OrDefault(options, "taxRate", 25) ]

calculateCommission_NoFloor(eng, qty) == qty * eng.commissionPerShare

\* calculateCommission(shares)
calculateCommission(eng, qty) ==
    Max(qty * eng.commissionPerShare, eng.minCommission)

TaxOn_Losses(eng, profit) == (profit * eng.taxRate) \div 100

\* `profit * this.taxRate`, deducted only `if (profit > 0)`.  profit is a
\* multiple of 100 cents (whole-dollar prices), so the division is exact.
TaxOn(eng, profit) ==
    IF profit > 0 THEN (profit * eng.taxRate) \div 100 ELSE 0

\* strategy.scaleOutPct || 0.5, in percent
scaleOutPct(strat) == OrDefault(strat, "scaleOutPct", 50)

Trade(date, type, price, qty, commission, pnl) ==
    [ date |-> date, type |-> type, price |-> price, shares |-> qty,
      commission |-> commission, pnl |-> pnl ]

\* The state of one backtest() call between two loop iterations.
BtState(c, p, s, e, t, q) ==
    [ capital |-> c, position |-> p, shares |-> s, entryPrice |-> e,
      trades |-> t, equityCurve |-> q ]

\* equityCurve[i] = v
SetEquity(curve, v) == [curve EXCEPT ![Len(curve)] = v]

MarkToMarket_CashOnly(s, price) ==
    [s EXCEPT !.equityCurve = Append(@, s.capital)]

\* line 41: equityCurve.push(capital + (shares > 0 ? shares * price : 0))
MarkToMarket(s, price) ==
    [s EXCEPT !.equityCurve =
        Append(@, s.capital + (IF s.shares > 0 THEN s.shares * price ELSE 0))]

ScaleOut_NoMinimumOfOne(s, eng, strat, date, price) ==
    LET sellQty       == (s.shares * scaleOutPct(strat)) \div 100
        actualSellQty == Min(sellQty, s.shares)
        commission    == calculateCommission(eng, actualSellQty)
        proceeds      == actualSellQty * price
        profit        == actualSellQty * (price - s.entryPrice)
        cap           == s.capital + proceeds - commission - TaxOn(eng, profit)
        left          == s.shares - actualSellQty
    IN  [s EXCEPT
            !.capital     = cap,
            !.trades      = Append(@, Trade(date, "Scale Out", price, -actualSellQty,
                                            commission, profit - commission)),
            !.shares      = left,
            !.position    = IF left = 0 THEN 0 ELSE @,
            !.equityCurve = SetEquity(@, cap + (IF left > 0 THEN left * price ELSE 0))]

\* lines 48-78: PARTIAL EXIT (scale-out)
ScaleOut(s, eng, strat, date, price) ==
    LET sellQty       == Max(1, (s.shares * scaleOutPct(strat)) \div 100)
        actualSellQty == Min(sellQty, s.shares)
        commission    == calculateCommission(eng, actualSellQty)
        proceeds      == actualSellQty * price
        profit        == actualSellQty * (price - s.entryPrice)
        cap           == s.capital + proceeds - commission - TaxOn(eng, profit)
        left          == s.shares - actualSellQty
    IN  [s EXCEPT
            !.capital     = cap,
            !.trades      = Append(@, Trade(date, "Scale Out", price, -actualSellQty,
                                            commission, profit - commission)),
            !.shares      = left,
            !.position    = IF left = 0 THEN 0 ELSE @,
            !.equityCurve = SetEquity(@, cap + (IF left > 0 THEN left * price ELSE 0))]

\* lines 83-101: close any short (safety)
CoverShort(s, eng, date, price) ==
    LET coverQty   == Abs(s.shares)
        commission == calculateCommission(eng, coverQty)
        profit     == coverQty * (s.entryPrice - price)
    IN  [s EXCEPT
            !.capital  = @ + profit - commission - TaxOn(eng, profit),
            !.trades   = Append(@, Trade(date, "Cover Short", price, coverQty,
                                         commission, profit - commission)),
            !.shares   = 0,
            !.position = 0]

\* line 103: Math.floor(capital / price)
BuyQty(cap, price) == cap \div price

BuyLong_Overspend(s, eng, date, price) ==
    LET buyQty     == BuyQty(s.capital, price)
        commission == calculateCommission(eng, buyQty)
        spend      == buyQty * price + commission
    IN  IF buyQty <= 0 THEN s
        ELSE [s EXCEPT
                !.capital     = @ - spend,
                !.shares      = buyQty,
                !.entryPrice  = price,
                !.position    = 1,
                !.trades      = Append(@, Trade(date, "Buy Long", price, buyQty,
                                                commission, -commission)),
                !.equityCurve = SetEquity(@, (s.capital - spend) + buyQty * price)]

BuyLong_CommissionUnchecked(s, eng, date, price) ==
    LET buyQty     == BuyQty(s.capital, price)
        commission == calculateCommission(eng, buyQty)
        spend      == buyQty * price + commission
    IN  IF buyQty <= 0 THEN s
        ELSE IF buyQty * price > s.capital THEN s
        ELSE [s EXCEPT
                !.capital     = @ - spend,
                !.shares      = buyQty,
                !.entryPrice  = price,
                !.position    = 1,
                !.trades      = Append(@, Trade(date, "Buy Long", price, buyQty,
                                                commission, -commission)),
                !.equityCurve = SetEquity(@, (s.capital - spend) + buyQty * price)]

\* lines 103-129: the entry itself, after any cover
BuyLong(s, eng, date, price) ==
    LET buyQty     == BuyQty(s.capital, price)
        commission == calculateCommission(eng, buyQty)
        spend      == buyQty * price + commission
    IN  IF buyQty <= 0 THEN s
        ELSE IF spend > s.capital THEN s
        ELSE [s EXCEPT
                !.capital     = @ - spend,
                !.shares      = buyQty,
                !.entryPrice  = price,
                !.position    = 1,
                !.trades      = Append(@, Trade(date, "Buy Long", price, buyQty,
                                                commission, -commission)),
                !.equityCurve = SetEquity(@, (s.capital - spend) + buyQty * price)]

\* lines 81-129: OPEN LONG
OpenLong(s, eng, date, price) ==
    BuyLong(IF s.position < 0 THEN CoverShort(s, eng, date, price) ELSE s,
            eng, date, price)

SellAll_UnsignedShares(s, eng, date, price, type) ==
    LET sellQty    == s.shares
        commission == calculateCommission(eng, sellQty)
        proceeds   == sellQty * price
        profit     == sellQty * (price - s.entryPrice)
        cap        == s.capital + proceeds - commission - TaxOn(eng, profit)
    IN  [s EXCEPT
            !.capital     = cap,
            !.trades      = Append(@, Trade(date, type, price, sellQty,
                                            commission, profit - commission)),
            !.shares      = 0,
            !.position    = 0,
            !.equityCurve = SetEquity(@, cap)]

\* The liquidation shared by FULL EXIT (133-154) and HARD STOP (161-182).
SellAll(s, eng, date, price, type) ==
    LET sellQty    == s.shares
        commission == calculateCommission(eng, sellQty)
        proceeds   == sellQty * price
        profit     == sellQty * (price - s.entryPrice)
        cap        == s.capital + proceeds - commission - TaxOn(eng, profit)
    IN  [s EXCEPT
            !.capital     = cap,
            !.trades      = Append(@, Trade(date, type, price, -sellQty,
                                            commission, profit - commission)),
            !.shares      = 0,
            !.position    = 0,
            !.equityCurve = SetEquity(@, cap)]

FullExit_WhateverThePosition(s, eng, date, price, sig) ==
    IF sig = -1
        THEN SellAll(s, eng, date, price, "Sell Long")
        ELSE s

\* lines 132-155: FULL EXIT
FullExit(s, eng, date, price, sig) ==
    IF sig = -1 /\ s.position > 0 /\ s.shares > 0
        THEN SellAll(s, eng, date, price, "Sell Long")
        ELSE s

\* line 159-160: price <= entryPrice * (1 - strategy.stopLossPct)
StopHit(strat, entry, price) ==
    100 * price <= entry * (100 - strat.stopLossPct)

\* lines 158-184: HARD STOP safeguard
HardStop(s, eng, strat, date, price) ==
    IF s.position > 0 /\ s.shares > 0 /\ StopHit(strat, s.entryPrice, price)
        THEN SellAll(s, eng, date, price, "Stop Loss")
        ELSE s

IsHold_ZeroOnly(sig) == sig = 0

IsHold_NaNOnly(sig) == sig = NaNSignal

\* line 43: if (isNaN(signal) || signal === 0) continue
IsHold(sig) == sig = NaNSignal \/ sig = 0

BacktestIteration_ScaleOutFallsThrough(s0, eng, strat, date, price, sig) ==
    LET s == MarkToMarket(s0, price)
    IN  IF IsHold(sig) THEN s
        ELSE IF sig = 2 /\ s.position > 0 /\ s.shares > 0
            THEN HardStop(ScaleOut(s, eng, strat, date, price), eng, strat, date, price)
        ELSE IF sig = 1 /\ s.position <= 0
            THEN OpenLong(s, eng, date, price)
        ELSE HardStop(FullExit(s, eng, date, price, sig), eng, strat, date, price)

\* lines 36-184: one iteration of the loop of backtest(), price in cents
BacktestIteration(s0, eng, strat, date, price, sig) ==
    LET s == MarkToMarket(s0, price)
    IN  IF IsHold(sig) THEN s
        ELSE IF sig = 2 /\ s.position > 0 /\ s.shares > 0
            THEN ScaleOut(s, eng, strat, date, price)
        ELSE IF sig = 1 /\ s.position <= 0
            THEN OpenLong(s, eng, date, price)
        ELSE HardStop(FullExit(s, eng, date, price, sig), eng, strat, date, price)

\* an object without properties: {}
EmptyObject == [x \in {} |-> 0]

RECURSIVE SumOf(_, _)
\* trades.reduce((sum, t) => sum + t[field], 0)
SumOf(tr, field) ==
    IF tr = <<>> THEN 0 ELSE Head(tr)[field] + SumOf(Tail(tr), field)

calculateMetrics_WinRateOverExits(eng, tr, curve) ==
    IF tr = <<>> \/ curve = <<>> THEN EmptyObject
    ELSE LET finalEquity   == Last(curve)
             Won(t)        == t.pnl > 0
             Lost(t)       == t.pnl < 0
             Exit(t)       == t.shares < 0
             winningTrades == SelectSeq(tr, Won)
             losingTrades  == SelectSeq(tr, Lost)
             exits         == SelectSeq(tr, Exit)
         IN  [ initialCapital   |-> eng.initialCapital,
               finalEquity      |-> finalEquity,
               totalReturn      |-> Rat((finalEquity - eng.initialCapital) * 100,
                                        eng.initialCapital),
               totalTrades      |-> Len(tr),
               winningTrades    |-> Len(winningTrades),
               winRate          |-> IF Len(exits) > 0
                                      THEN Rat(Len(winningTrades) * 100, Len(exits))
                                      ELSE R(0),
               avgWin           |-> IF Len(winningTrades) > 0
                                      THEN Rat(SumOf(winningTrades, "pnl"),
                                               Len(winningTrades))
                                      ELSE R(0),
               avgLoss          |-> IF Len(losingTrades) > 0
                                      THEN Rat(SumOf(losingTrades, "pnl"),
                                               Len(losingTrades))
                                      ELSE R(0),
               totalCommissions |-> SumOf(tr, "commission") ]

\* calculateMetrics(trades, equityCurve): money in cents, rates in percent
calculateMetrics(eng, tr, curve) ==
    IF tr = <<>> \/ curve = <<>> THEN EmptyObject
    ELSE LET finalEquity   == Last(curve)
             Won(t)        == t.pnl > 0
             Lost(t)       == t.pnl < 0
             winningTrades == SelectSeq(tr, Won)
             losingTrades  == SelectSeq(tr, Lost)
         IN  [ initialCapital   |-> eng.initialCapital,
               finalEquity      |-> finalEquity,
               totalReturn      |-> Rat((finalEquity - eng.initialCapital) * 100,
                                        eng.initialCapital),
               totalTrades      |-> Len(tr),
               winningTrades    |-> Len(winningTrades),
               winRate          |-> Rat(Len(winningTrades) * 100, Len(tr)),
               avgWin           |-> IF Len(winningTrades) > 0
                                      THEN Rat(SumOf(winningTrades, "pnl"),
                                               Len(winningTrades))
                                      ELSE R(0),
               avgLoss          |-> IF Len(losingTrades) > 0
                                      THEN Rat(SumOf(losingTrades, "pnl"),
                                               Len(losingTrades))
                                      ELSE R(0),
               totalCommissions |-> SumOf(tr, "commission") ]

\* TradingSimulator.calculateBuyHoldComparison() once marketData and
\* backtestResults are set; firstPrice and lastPrice in cents, 0 for the
\* undefined close[0] of an empty series.  A property the metrics object
\* lacks reads as undefined and every number computed from it is NaN.
calculateBuyHoldComparison(firstPrice, lastPrice, metrics) ==
    IF "initialCapital" \notin DOMAIN metrics \/ firstPrice = 0
        THEN [ finalEquity |-> NaN, totalReturn |-> NaN, commission |-> NaN,
               outperformance |-> NaN ]
    ELSE LET initialCapital      == metrics.initialCapital
             sharesBuyHold       == initialCapital \div firstPrice
             commissionBuyHold   == Max(sharesBuyHold * 1, 7 * CentsPerDollar)
             remainingCash       == initialCapital
                                      - (sharesBuyHold * firstPrice + commissionBuyHold)
             finalBuyHoldEquity  == sharesBuyHold * lastPrice + remainingCash
             buyHoldReturn       == Rat((finalBuyHoldEquity - initialCapital) * 100,
                                        initialCapital)
         IN  [ finalEquity    |-> R(finalBuyHoldEquity),
               totalReturn    |-> buyHoldReturn,
               commission     |-> R(commissionBuyHold),
               outperformance |-> RSub(metrics.totalReturn, buyHoldReturn) ]

-----------------------------------------------------------------------------
(* MTRIndicator *)

\* constructor(options).  initialBaseline: 0 stands for null (both falsy in
\* `this.initialBaseline || close[startIdx]`).
MTRIndicator(options) ==
    [ serenityWindow        |-> OrDefault(options, "serenityWindow", 20),
      atrWindow             |-> OrDefault(options, "atrWindow", 14),
      bandMult              |-> OrDefault(options, "bandMult", 2),
      stabilityConfirmation |-> OrDefault(options, "stabilityConfirmation", 10),
      initialBaseline       |-> OrDefault(options, "initialBaseline", 0) ]

\* line 62: startIdx
StartIdx(ind) == Max(ind.serenityWindow, ind.atrWindow)

\* bars of the input the loop iteration of bar i reads: close[i - atrWindow]
\* for the oldest true range, close[i - stabilityConfirmation] for the lookback
WindowLen(ind) == Max(ind.atrWindow, ind.stabilityConfirmation) + 1

\* lines 26-30: the true range of a bar after the first
TrueRange(prev, bar) ==
    Max(bar.high - bar.low,
        Max(Abs(bar.high - prev.close), Abs(bar.low - prev.close)))

RECURSIVE SumTrueRange(_, _, _)
\* the sum of the true ranges of the bars w[from..to]
SumTrueRange(w, from, to) ==
    IF from > to THEN 0
    ELSE TrueRange(w[from - 1], w[from]) + SumTrueRange(w, from + 1, to)

\* lines 36-43 and 54: atrPct[i] for the newest bar of window w, i >= atrWindow
AtrPct(ind, w) ==
    LET atr == Rat(SumTrueRange(w, Len(w) - ind.atrWindow + 1, Len(w)), ind.atrWindow)
    IN  RDiv(atr, R(Last(w).close))

Bands(b, u, l) == [mtrBase |-> b, mtrUpper |-> u, mtrLower |-> l]

NoBands_ZeroFilled == Bands(R(0), R(0), R(0))

\* lines 57-59: new Array(close.length).fill(NaN)
NoBands == Bands(NaN, NaN, NaN)

UpperOf_Minus(baseline, bandWidth) == RMul(baseline, RSub(R(1), bandWidth))

\* lines 75-76, 110-111: baseline * (1 + bandWidth), baseline * (1 - bandWidth)
UpperOf(baseline, bandWidth) == RMul(baseline, RAdd(R(1), bandWidth))
LowerOf(baseline, bandWidth) == RMul(baseline, RSub(R(1), bandWidth))

\* the locals of calculate() the loop carries
Locals(b, u, l, d) ==
    [ currentBaseline |-> b, currentUpper |-> u, currentLower |-> l,
      daysSinceLastChange |-> d ]

\* lines 73-79: the locals before the first iteration (i = startIdx)
InitialLocals(ind, w) ==
    LET base == IF ind.initialBaseline # 0 THEN R(ind.initialBaseline)
                ELSE R(Last(w).close)
        initialBandWidth == RMul(R(ind.bandMult), AtrPct(ind, w))
    IN  Locals(base, UpperOf(base, initialBandWidth),
               LowerOf(base, initialBandWidth), 0)

\* lines 98-99: close.slice(Math.max(0, i - stabilityConfirmation), i + 1)
RecentPrices(ind, w) ==
    LET from == Max(1, Len(w) - ind.stabilityConfirmation)
    IN  [k \in 1..(Len(w) - from + 1) |-> w[from + k - 1].close]

RECURSIVE SeqSum(_)
SeqSum(q) == IF q = <<>> THEN 0 ELSE q[1] + SeqSum(Tail(q))
SeqMax(q) == CHOOSE x \in {q[k] : k \in 1..Len(q)} : \A k \in 1..Len(q) : q[k] <= x
SeqMin(q) == CHOOSE x \in {q[k] : k \in 1..Len(q)} : \A k \in 1..Len(q) : q[k] >= x
Mean(q) == Rat(SeqSum(q), Len(q))

MajorMove_AtLeast(price, baseline) ==
    RGe(RDiv(RAbs(RSub(R(price), baseline)), baseline), Rat(25, 100))

\* line 90 and the first test of line 96: a move of more than 25%
MajorMove(price, baseline) ==
    RGt(RDiv(RAbs(RSub(R(price), baseline)), baseline), Rat(25, 100))

Stable_Always(recent) == TRUE

\* lines 100-104: recent volatility below 15%
Stable(recent) ==
    RLt(RDiv(R(SeqMax(recent) - SeqMin(recent)), Mean(recent)), Rat(15, 100))

LoopIteration_BandsFollowAtr(ind, loc, w) ==
    LET days      == loc.daysSinceLastChange + 1
        recent    == RecentPrices(ind, w)
        bandWidth == RMul(R(ind.bandMult), AtrPct(ind, w))
    IN  IF MajorMove(Last(w).close, loc.currentBaseline) /\ days > 30
            /\ Stable(recent)
        THEN LET base == Mean(recent)
             IN  Locals(base, UpperOf(base, bandWidth), LowerOf(base, bandWidth), 0)
        ELSE Locals(loc.currentBaseline, UpperOf(loc.currentBaseline, bandWidth),
                    LowerOf(loc.currentBaseline, bandWidth), days)

\* lines 86-117: the locals after the iteration of the newest bar of w
LoopIteration(ind, loc, w) ==
    LET days   == loc.daysSinceLastChange + 1
        recent == RecentPrices(ind, w)
    IN  IF MajorMove(Last(w).close, loc.currentBaseline) /\ days > 30
            /\ Stable(recent)
        THEN LET base      == Mean(recent)
                 bandWidth == RMul(R(ind.bandMult), AtrPct(ind, w))
             IN  Locals(base, UpperOf(base, bandWidth), LowerOf(base, bandWidth), 0)
        ELSE [loc EXCEPT !.daysSinceLastChange = days]

-----------------------------------------------------------------------------
(* TradingStrategy *)

\* this.prevUpper = null
Null == [n |-> 0, d |-> -1]

reset_KeepsPosition(st) ==
    [st EXCEPT !.lastTradeIndex = -10000, !.prevUpper = Null, !.prevLower = Null]

\* reset()
reset(st) ==
    [st EXCEPT !.inPos = FALSE, !.lastTradeIndex = -10000,
               !.prevUpper = Null, !.prevLower = Null]

\* constructor(options); stopLossPct and insideMarginRatio in percent.
\* bandChangeEps (1e-6) and the width floor of _levels (1e-9) lie below the
\* spacing of the model's numbers: |x| > bandChangeEps is x # 0, and a
\* floored width is carried as an infinitesimal (see levels).
TradingStrategy(options) ==
    reset([ stopLossPct          |-> OrDefault(options, "stopLossPct", 10),
            minDaysBetweenTrades |-> OrDefault(options, "minDaysBetweenTrades", 2),
            insideMarginRatio    |-> OrDefault(options, "insideMarginRatio", 10),
            reassessOnBandChange |->
                ~("reassessOnBandChange" \in DOMAIN options
                    /\ options["reassessOnBandChange"] = FALSE),
            inPos |-> FALSE, lastTradeIndex |-> 0,
            prevUpper |-> Null, prevLower |-> Null ])

levels_Swapped(st, upper, lower) ==
    LET w == RSub(upper, lower)
        m == RMul(Rat(st.insideMarginRatio, 100), w)
    IN  IF RGt(w, R(0))
            THEN [ buyLvl  |-> [v |-> RSub(upper, m), inf |-> 0],
                   sellLvl |-> [v |-> RAdd(lower, m), inf |-> 0] ]
            ELSE [ buyLvl  |-> [v |-> upper, inf |-> -1],
                   sellLvl |-> [v |-> lower, inf |-> 1] ]

\* _levels(upper, lower).  A level is v + inf * delta, delta the margin of
\* the floored width (insideMarginRatio * 1e-9): inf = 0 when the width
\* upper - lower is not floored.
levels(st, upper, lower) ==
    LET w == RSub(upper, lower)
        m == RMul(Rat(st.insideMarginRatio, 100), w)
    IN  IF RGt(w, R(0))
            THEN [ buyLvl  |-> [v |-> RAdd(lower, m), inf |-> 0],
                   sellLvl |-> [v |-> RSub(upper, m), inf |-> 0] ]
            ELSE [ buyLvl  |-> [v |-> lower, inf |-> 1],
                   sellLvl |-> [v |-> upper, inf |-> -1] ]

\* x < lvl, x >= lvl, x > lvl, x <= lvl for a number x and a level
LtLvl(x, lvl) == RLt(x, lvl.v) \/ (REq(x, lvl.v) /\ lvl.inf > 0)
GeLvl(x, lvl) == RGt(x, lvl.v) \/ (REq(x, lvl.v) /\ lvl.inf <= 0)
GtLvl(x, lvl) == RGt(x, lvl.v) \/ (REq(x, lvl.v) /\ lvl.inf < 0)
LeLvl(x, lvl) == RLt(x, lvl.v) \/ (REq(x, lvl.v) /\ lvl.inf >= 0)

\* _bandChanged(upper, lower)
bandChanged(st, upper, lower) ==
    IF st.prevUpper = Null \/ st.prevLower = Null THEN FALSE
    ELSE ~REq(upper, st.prevUpper) \/ ~REq(lower, st.prevLower)

\* this.prevUpper = upper; this.prevLower = lower
TrackBands(st, upper, lower) ==
    [st EXCEPT !.prevUpper = upper, !.prevLower = lower]

Emit_FlagUntouched(st, idx, sig) ==
    [ strategy |-> [st EXCEPT !.lastTradeIndex = idx], sig |-> sig ]

\* sig = +-1; this.inPos = ...; this.lastTradeIndex = i
Emit(st, idx, sig) ==
    [ strategy |-> [st EXCEPT !.inPos = (sig = 1), !.lastTradeIndex = idx],
      sig |-> sig ]

Hold(st) == [strategy |-> st, sig |-> 0]

InCooldown_OneBarShort(st, idx) ==
    idx - st.lastTradeIndex < st.minDaysBetweenTrades - 1

\* line 74: the cooldown test
InCooldown(st, idx) == idx - st.lastTradeIndex < st.minDaysBetweenTrades

RegimeRules_TouchIsBreakout(st, idx, price, prevPrice, upper, lower, prevUpper, prevLower) ==
    LET lv == levels(st, upper, lower)
    IN  IF RGe(price, upper) THEN
            IF ~st.inPos /\ RLe(prevPrice, prevUpper) /\ RGe(price, upper)
                THEN Emit(st, idx, 1) ELSE Hold(st)
        ELSE IF RLt(price, lower) THEN
            IF st.inPos /\ RGe(prevPrice, prevLower) /\ RLt(price, lower)
                THEN Emit(st, idx, -1) ELSE Hold(st)
        ELSE IF ~st.inPos THEN
            IF LtLvl(prevPrice, lv.buyLvl) /\ GeLvl(price, lv.buyLvl)
                THEN Emit(st, idx, 1) ELSE Hold(st)
        ELSE
            IF GtLvl(prevPrice, lv.sellLvl) /\ LeLvl(price, lv.sellLvl)
                THEN Emit(st, idx, -1) ELSE Hold(st)

RegimeRules_BreakoutWhileInPosition(st, idx, price, prevPrice, upper, lower, prevUpper, prevLower) ==
    LET lv == levels(st, upper, lower)
    IN  IF RGt(price, upper) THEN
            IF RLe(prevPrice, prevUpper) /\ RGt(price, upper)
                THEN Emit(st, idx, 1) ELSE Hold(st)
        ELSE IF RLt(price, lower) THEN
            IF st.inPos /\ RGe(prevPrice, prevLower) /\ RLt(price, lower)
                THEN Emit(st, idx, -1) ELSE Hold(st)
        ELSE IF ~st.inPos THEN
            IF LtLvl(prevPrice, lv.buyLvl) /\ GeLvl(price, lv.buyLvl)
                THEN Emit(st, idx, 1) ELSE Hold(st)
        ELSE
            IF GtLvl(prevPrice, lv.sellLvl) /\ LeLvl(price, lv.sellLvl)
                THEN Emit(st, idx, -1) ELSE Hold(st)

\* lines 106-139: regime rules
RegimeRules(st, idx, price, prevPrice, upper, lower, prevUpper, prevLower) ==
    LET lv == levels(st, upper, lower)
    IN  IF RGt(price, upper) THEN
            IF ~st.inPos /\ RLe(prevPrice, prevUpper) /\ RGt(price, upper)
                THEN Emit(st, idx, 1) ELSE Hold(st)
        ELSE IF RLt(price, lower) THEN
            IF st.inPos /\ RGe(prevPrice, prevLower) /\ RLt(price, lower)
                THEN Emit(st, idx, -1) ELSE Hold(st)
        ELSE IF ~st.inPos THEN
            IF LtLvl(prevPrice, lv.buyLvl) /\ GeLvl(price, lv.buyLvl)
                THEN Emit(st, idx, 1) ELSE Hold(st)
        ELSE
            IF GtLvl(prevPrice, lv.sellLvl) /\ LeLvl(price, lv.sellLvl)
                THEN Emit(st, idx, -1) ELSE Hold(st)

\* lines 57-143: one iteration (i >= 1) of the loop of generateSignals():
\* the strategy object after it and the signal it pushes
SignalIteration(st, idx, price, prevPrice, upper, lower, prevUpper, prevLower) ==
    IF isNaN(upper) \/ isNaN(lower) THEN Hold(st)
    ELSE IF InCooldown(st, idx) THEN Hold(TrackBands(st, upper, lower))
    ELSE IF st.reassessOnBandChange /\ bandChanged(st, upper, lower)
            /\ st.inPos /\ RLt(price, lower)
        THEN Emit(TrackBands(st, upper, lower), idx, -1)
    ELSE IF st.reassessOnBandChange /\ bandChanged(st, upper, lower)
            /\ ~st.inPos /\ RGt(price, upper)
        THEN Emit(TrackBands(st, upper, lower), idx, 1)
    ELSE LET r == RegimeRules(st, idx, price, prevPrice, upper, lower,
                              prevUpper, prevLower)
         IN  [r EXCEPT !.strategy = TrackBands(@, upper, lower)]

-----------------------------------------------------------------------------
(* TradingSimulator *)

\* A stage output is modelled by its identity (a serial number, 0 for null)
\* and by the identities of the stored outputs it was computed from.
NullOutput == [id |-> 0]

\* constructor(options): lines 18-26.  The components are modelled by
\* whether a later call has replaced them with `new X(params)`.
TradingSimulator ==
    [ marketData |-> NullOutput, indicators |-> NullOutput,
      signals |-> NullOutput, backtestResults |-> NullOutput,
      mtrIndicator |-> "default", strategy |-> "default",
      backtestEngine |-> "default", serial |-> 0 ]

Returned(sm, call) == [sim |-> sm, call |-> call, result |-> "ok"]
Thrown(sm, call) == [sim |-> sm, call |-> call, result |-> "error"]

\* lines 32-81: loadData().  how = "ok": marketData is replaced (from the
\* cache, the fetch or the mock data);  "cacheError": database.getStockData
\* rejects before marketData is assigned;  "saveError": database.saveStockData
\* rejects after it was assigned (line 65, then line 72).
loadData(sm, how) ==
    LET loaded == [sm EXCEPT !.marketData = [id |-> sm.serial + 1],
                             !.serial = @ + 1]
    IN  CASE how = "ok"         -> Returned(loaded, "loadData")
          [] how = "cacheError" -> Thrown(sm, "loadData")
          [] how = "saveError"  -> Thrown(loaded, "loadData")

\* lines 86-99: calculateIndicator(params)
calculateIndicator(sm, params) ==
    IF sm.marketData = NullOutput THEN Thrown(sm, "calculateIndicator")
    ELSE Returned([sm EXCEPT
            !.mtrIndicator = IF params THEN "params" ELSE @,
            !.indicators = [id |-> sm.serial + 1, marketData |-> sm.marketData.id],
            !.serial = @ + 1], "calculateIndicator")

\* lines 104-124: generateSignals(params); it reads this.marketData.close
\* and this.indicators
generateSignals(sm, params) ==
    IF sm.indicators = NullOutput THEN Thrown(sm, "generateSignals")
    ELSE Returned([sm EXCEPT
            !.strategy = IF params THEN "params" ELSE @,
            !.signals = [id |-> sm.serial + 1, indicators |-> sm.indicators.id,
                         marketData |-> sm.marketData.id],
            !.serial = @ + 1], "generateSignals")

runBacktest_Unguarded(sm, params) ==
    Returned([sm EXCEPT
            !.backtestEngine = IF params THEN "params" ELSE @,
            !.backtestResults = [id |-> sm.serial + 1, signals |-> sm.signals.id,
                                 marketData |-> sm.marketData.id],
            !.serial = @ + 1], "runBacktest")

\* lines 150-176: runBacktest(params); it reads this.marketData.close and
\* this.signals
runBacktest(sm, params) ==
    IF sm.signals = NullOutput THEN Thrown(sm, "runBacktest")
    ELSE Returned([sm EXCEPT
            !.backtestEngine = IF params THEN "params" ELSE @,
            !.backtestResults = [id |-> sm.serial + 1, signals |-> sm.signals.id,
                                 marketData |-> sm.marketData.id],
            !.serial = @ + 1], "runBacktest")

\* lines 222-238: getResults()
getResults(sm) ==
    IF sm.backtestResults = NullOutput THEN Thrown(sm, "getResults")
    ELSE Returned(sm, "getResults")

-----------------------------------------------------------------------------
(* The passes as actions *)

close == Last(bars).close

\* new BacktestEngine(options): the options the runs construct it with.  The
\* defaults (10000 dollars), a capital that leaves room for the commission
\* of a first purchase at every price of EnginePrices, or one that buys a
\* single share at the lowest price and none at the highest.
NoOptions == [x \in {} |-> 0]
EngineOptions ==
    { NoOptions, [initialCapital |-> 10009 * CentsPerDollar],
      [initialCapital |-> 20 * CentsPerDollar] }

InitBacktest(eng) ==
    /\ capital = eng.initialCapital
    /\ position = 0
    /\ shares = 0
    /\ entryPrice = 0
    /\ trades = <<>>
    /\ equityCurve = <<>>

\* The state before the first bar: the arrays empty but for the padded
\* signals = [0], the strategy reset, the engine's position state at its
\* initial values.
InitObjects(lengths, indOpts, stratOpts, engOpts) ==
    /\ n \in lengths
    /\ calls = 0
    /\ firstClose = 0
    /\ i = 0
    /\ pc = IF n = 0 THEN "done" ELSE "data"
    /\ bars = <<>>
    /\ indicator \in {MTRIndicator(o) : o \in indOpts}
    /\ currentBaseline = NaN
    /\ currentUpper = NaN
    /\ currentLower = NaN
    /\ daysSinceLastChange = 0
    /\ baselineChanges = <<>>
    /\ mtr = <<>>
    /\ startBands = NoBands
    /\ driftBounded = TRUE
    /\ supplied \in [strategy : stratOpts, engine : engOpts]
    /\ strategy = TradingStrategy(supplied.strategy)
    /\ signals = <<0>>
    /\ signal = 0
    /\ fresh = [strategy |-> strategy, signals |-> <<0>>]
    /\ engine = BacktestEngine(supplied.engine)
    /\ InitBacktest(engine)
    /\ sim = TradingSimulator
    /\ outcome = [call |-> "new", result |-> "ok"]
    /\ response = "none"

\* a run on an arbitrary input
InitRun(lengths, indOpts, stratOpts, engOpts) ==
    /\ scenario = "arbitrary"
    /\ InitObjects(lengths, indOpts, stratOpts, engOpts)

\* close[0] is bar 0's close
ReadFirst(c) == firstClose' = IF i = 0 THEN c ELSE firstClose

Bar(h, l, c) == [high |-> h, low |-> l, close |-> c]
\* the window after bar b (output o) is read: the last `keep` bars stay
Slide(w, x, keep) ==
    LET a == Append(w, x)
    IN  IF Len(a) > keep THEN SubSeq(a, Len(a) - keep + 1, Len(a)) ELSE a

InitEngine == InitRun(0..MaxBars, {NoOptions}, {NoOptions}, EngineOptions)

\* data = { dates, close, signals }: bar i of an arbitrary input to backtest()
EngineInput ==
    /\ pc = "data"
    /\ \E c \in EnginePrices, sg \in {-1, 0, 1, 2, NaNSignal} :
          /\ bars' = <<Bar(c, c, c)>>
          /\ ReadFirst(c)
          /\ signal' = sg
    /\ pc' = "bt"
    /\ UNCHANGED simVars
    /\ UNCHANGED <<n, supplied, scenario, calls, fresh, i, indVars, strategy, signals, engine, btVars>>

BacktestBar ==
    /\ pc = "bt"
    /\ LET s == BacktestIteration(
                    BtState(capital, position, shares, entryPrice, trades, equityCurve),
                    engine, strategy, i, close * CentsPerDollar, signal)
       IN  /\ capital' = s.capital
           /\ position' = s.position
           /\ shares' = s.shares
           /\ entryPrice' = s.entryPrice
           /\ trades' = s.trades
           /\ equityCurve' = s.equityCurve
    /\ i' = i + 1
    /\ pc' = IF i + 1 < n THEN "data" ELSE "done"
    /\ UNCHANGED simVars
    /\ UNCHANGED <<n, supplied, scenario, calls, firstClose, fresh, bars, indVars, strategy,
                   signals, signal, engine>>

NextEngine == EngineInput \/ BacktestBar

SpecEngine == InitEngine /\ [][NextEngine]_vars

\* closes of a cheap share: some below the minimum commission of 7 dollars
CheapPrices == {1, 5, 8, 13}

\* initial capitals that buy one or two shares at 13 and leave no cash
SmallAccounts ==
    { [initialCapital |-> 20 * CentsPerDollar], [initialCapital |-> 33 * CentsPerDollar] }

InitCheapShares == InitRun(0..MaxBars, {NoOptions}, {NoOptions}, SmallAccounts)

\* data = { dates, close, signals }: bar i of an input to backtest() with
\* positive closes and signals from {-1, 0, 1, 2}
CheapInput ==
    /\ pc = "data"
    /\ \E c \in CheapPrices, sg \in {-1, 0, 1, 2} :
          /\ bars' = <<Bar(c, c, c)>>
          /\ ReadFirst(c)
          /\ signal' = sg
    /\ pc' = "bt"
    /\ UNCHANGED simVars
    /\ UNCHANGED <<n, supplied, scenario, calls, fresh, i, indVars, strategy, signals, engine, btVars>>

NextCheapShares == CheapInput \/ BacktestBar

\* backtest() on a cheap share, arbitrary signals
SpecCheapShares == InitCheapShares /\ [][NextCheapShares]_vars

\* bands an arbitrary input to generateSignals() carries
FreeBands ==
    { Bands(R(30), R(40), R(20)), Bands(R(25), R(30), R(20)),
      Bands(R(30), R(30), R(30)), Bands(R(50), R(55), R(45)),
      Bands(NaN, NaN, R(20)), NoBands }

InitSignals == InitRun(0..MaxBars, {NoOptions}, {NoOptions}, EngineOptions)

\* data = { close, mtrUpper, mtrLower }: bar i of an arbitrary input to
\* generateSignals()
SignalInput ==
    /\ pc = "data"
    /\ \E c \in EnginePrices, b \in FreeBands :
          /\ bars' = Slide(bars, Bar(c, c, c), 2)
          /\ ReadFirst(c)
          /\ mtr' = Slide(mtr, b, 2)
    /\ pc' = "sig"
    /\ UNCHANGED simVars
    /\ UNCHANGED <<n, supplied, scenario, calls, fresh, i, indicator, currentBaseline, currentUpper, currentLower,
                   daysSinceLastChange, baselineChanges, startBands, driftBounded,
                   strategy, signals, signal, engine, btVars>>

\* Bar 0 is the padded entry; bars 1.. are the loop of generateSignals().
\* The signal is handed to backtest() as signals[i].
SignalBar ==
    /\ pc = "sig"
    /\ IF i = 0
         THEN /\ signal' = signals[1]
              /\ UNCHANGED <<strategy, signals, fresh>>
         ELSE LET k == Len(bars)
                  Iteration(st) ==
                      SignalIteration(st, i,
                            R(bars[k].close), R(bars[k - 1].close),
                            mtr[k].mtrUpper, mtr[k].mtrLower,
                            mtr[k - 1].mtrUpper, mtr[k - 1].mtrLower)
                  r == Iteration(strategy)
                  f == Iteration(fresh.strategy)
              IN  /\ strategy' = r.strategy
                  /\ signals' = Append(signals, r.sig)
                  /\ signal' = r.sig
                  /\ fresh' = [strategy |-> f.strategy,
                               signals |-> Append(fresh.signals, f.sig)]
    /\ pc' = "bt"
    /\ UNCHANGED simVars
    /\ UNCHANGED <<n, supplied, scenario, calls, firstClose, i, bars, indVars, engine, btVars>>

NextSignals == SignalInput \/ SignalBar \/ BacktestBar

\* generateSignals() on an arbitrary input, its output fed to backtest()
SpecSignals == InitSignals /\ [][NextSignals]_vars

\* the options a strategy object was constructed with
Configuration(st) ==
    [ stopLossPct |-> st.stopLossPct,
      minDaysBetweenTrades |-> st.minDaysBetweenTrades,
      insideMarginRatio |-> st.insideMarginRatio,
      reassessOnBandChange |-> st.reassessOnBandChange ]

\* generateSignals() is called again on the same strategy object, with
\* another input (lines 50-54: the array is [0] and reset() runs), and its
\* output goes to a new backtest() call
CallAgain ==
    /\ pc = "done"
    /\ calls + 1 < MaxCalls
    /\ calls' = calls + 1
    /\ n' \in 0..MaxBars
    /\ i' = 0
    /\ pc' = IF n' = 0 THEN "done" ELSE "data"
    /\ bars' = <<>>
    /\ mtr' = <<>>
    /\ firstClose' = 0
    /\ strategy' = reset(strategy)
    /\ signals' = <<0>>
    /\ signal' = 0
    /\ fresh' = [strategy |-> TradingStrategy(Configuration(strategy)),
                 signals |-> <<0>>]
    /\ capital' = engine.initialCapital
    /\ position' = 0
    /\ shares' = 0
    /\ entryPrice' = 0
    /\ trades' = <<>>
    /\ equityCurve' = <<>>
    /\ UNCHANGED simVars
    /\ UNCHANGED <<supplied, scenario, indicator, currentBaseline, currentUpper, currentLower,
                   daysSinceLastChange, baselineChanges, startBands, driftBounded, engine>>

\* options objects with supplied values: zeros, and values other than the
\* defaults (money in cents, rates in percent)
SuppliedEngineOptions ==
    { [taxRate |-> 0], [minCommission |-> 0],
      [commissionPerShare |-> 2, minCommission |-> 10 * CentsPerDollar, taxRate |-> 30] }
SuppliedStrategyOptions ==
    { [minDaysBetweenTrades |-> 0], [insideMarginRatio |-> 0],
      [minDaysBetweenTrades |-> 1, insideMarginRatio |-> 20] }

InitConfigured ==
    InitRun(0..MaxBars, {NoOptions}, SuppliedStrategyOptions, SuppliedEngineOptions)

\* the pipeline of SpecSignals on components constructed with supplied options
SpecConfigured == InitConfigured /\ [][NextSignals]_vars

InitRepeatedCalls == InitRun(0..MaxBars, {NoOptions}, {NoOptions}, {NoOptions})

NextRepeatedCalls == SignalInput \/ SignalBar \/ BacktestBar \/ CallAgain

\* generateSignals() called several times on one strategy object
SpecRepeatedCalls == InitRepeatedCalls /\ [][NextRepeatedCalls]_vars

-----------------------------------------------------------------------------
(* The indicator pass and the composed pipeline *)

\* new MTRIndicator(params) with short windows
SmallWindows ==
    [ serenityWindow |-> SmallWindow, atrWindow |-> SmallWindow,
      stabilityConfirmation |-> SmallWindow ]

\* the same with the initialBaseline override (80 is exactly 25% above it)
AnchoredWindows ==
    [ serenityWindow |-> SmallWindow, atrWindow |-> SmallWindow,
      stabilityConfirmation |-> SmallWindow, initialBaseline |-> 64 ]

\* bars (high, low, close) of a PriceSeries: positive, low <= close <= high
PriceBars == { Bar(40, 40, 40), Bar(55, 45, 50), Bar(80, 80, 80) }

\* bar i of an arbitrary PriceSeries
PriceInput ==
    /\ pc = "data"
    /\ \E b \in PriceBars :
          /\ bars' = Slide(bars, b, WindowLen(indicator))
          /\ ReadFirst(b.close)
    /\ pc' = "ind"
    /\ UNCHANGED simVars
    /\ UNCHANGED <<n, supplied, scenario, calls, fresh, i, indVars, strategy, signals, signal, engine, btVars>>

\* |close - b0| / b0 <= 0.25 for the initial baseline b0
WithinDrift(c, b0) == RLe(RAbs(RSub(R(c), b0)), RMul(Rat(25, 100), b0))

\* calculate(): what it leaves at index i of mtrBase, mtrUpper, mtrLower.
\* startIdx >= close.length returns the NaN-filled arrays (lines 63-70);
\* otherwise indices below startIdx keep NaN and the loop (85-123) writes
\* the others.  `next` is the following step.
IndicatorBar(next) ==
    /\ pc = "ind"
    /\ IF StartIdx(indicator) >= n \/ i < StartIdx(indicator)
         THEN /\ mtr' = Slide(mtr, NoBands, WindowLen(indicator))
              /\ UNCHANGED <<currentBaseline, currentUpper, currentLower,
                             daysSinceLastChange, baselineChanges, startBands,
                             driftBounded>>
         ELSE LET loc == IF i = StartIdx(indicator)
                            THEN InitialLocals(indicator, bars)
                            ELSE Locals(currentBaseline, currentUpper, currentLower,
                                        daysSinceLastChange)
                  new == LoopIteration(indicator, loc, bars)
                  out == Bands(new.currentBaseline, new.currentUpper, new.currentLower)
              IN  /\ currentBaseline' = new.currentBaseline
                  /\ currentUpper' = new.currentUpper
                  /\ currentLower' = new.currentLower
                  /\ daysSinceLastChange' = new.daysSinceLastChange
                  /\ baselineChanges' =
                        IF new.daysSinceLastChange = 0
                            THEN Append(baselineChanges,
                                        [index |-> i,
                                         oldBaseline |-> loc.currentBaseline,
                                         newBaseline |-> new.currentBaseline])
                            ELSE baselineChanges
                  /\ mtr' = Slide(mtr, out, WindowLen(indicator))
                  /\ startBands' = IF i = StartIdx(indicator) THEN out ELSE startBands
                  /\ driftBounded' =
                        IF i = StartIdx(indicator)
                            THEN WithinDrift(close, loc.currentBaseline)
                            ELSE driftBounded /\ WithinDrift(close, startBands.mtrBase)
    /\ pc' = next
    /\ UNCHANGED simVars
    /\ UNCHANGED <<n, supplied, scenario, calls, firstClose, fresh, i, bars, indicator,
                   strategy, signals, signal, engine, btVars>>

\* the end of an iteration of a run that has no later pass
NextBar ==
    /\ pc = "next"
    /\ i' = i + 1
    /\ pc' = IF i + 1 < n THEN "data" ELSE "done"
    /\ UNCHANGED simVars
    /\ UNCHANGED <<n, supplied, scenario, calls, firstClose, fresh, bars, indVars, strategy,
                   signals, signal, engine, btVars>>

IndicatorOnly == IndicatorBar("next")

InitIndicator ==
    InitRun({0, 1, SmallWindow, SmallWindow + 1, MaxIndicatorBars},
            {SmallWindows, AnchoredWindows}, {NoOptions}, {NoOptions})

NextIndicator == PriceInput \/ IndicatorOnly \/ NextBar

\* MTRIndicator.calculate() on an arbitrary PriceSeries
SpecIndicator == InitIndicator /\ [][NextIndicator]_vars

IndicatorThenSignals == IndicatorBar("sig")

InitPipeline ==
    InitRun(0..MaxPipelineBars, {SmallWindows, NoOptions}, {NoOptions}, EngineOptions)

NextPipeline == PriceInput \/ IndicatorThenSignals \/ SignalBar \/ BacktestBar

\* calculate(), generateSignals() and backtest() composed as TradingSimulator
\* composes them
SpecPipeline == InitPipeline /\ [][NextPipeline]_vars

-----------------------------------------------------------------------------
(* The pipeline on fixed series *)

\* "A": 100 bars at 50.  "B": 50 bars at 50, then 40 bars at 80.
\* "C": 50 bars at 50, 30 bars at 80, 20 bars at 110 (two steps).
\* "D": 50 bars at 50, one bar at 78, 49 bars at 80 (a step in two moves).
\* high = low = close.
ScenarioLength(sc) == IF sc = "B" THEN 90 ELSE 100
ScenarioClose(sc, idx) ==
    CASE sc = "A" -> 50
      [] sc = "B" -> IF idx < 50 THEN 50 ELSE 80
      [] sc = "C" -> IF idx < 50 THEN 50 ELSE IF idx < 80 THEN 80 ELSE 110
      [] sc = "D" -> IF idx < 50 THEN 50 ELSE IF idx = 50 THEN 78 ELSE 80

\* bar i of the fixed series
ScenarioInput ==
    /\ pc = "data"
    /\ scenario # "arbitrary"
    /\ LET c == ScenarioClose(scenario, i)
       IN  /\ bars' = Slide(bars, Bar(c, c, c), WindowLen(indicator))
           /\ ReadFirst(c)
    /\ pc' = "ind"
    /\ UNCHANGED simVars
    /\ UNCHANGED <<n, supplied, scenario, calls, fresh, i, indVars, strategy, signals, signal,
                   engine, btVars>>

\* The components as constructed without options: serenityWindow 20,
\* atrWindow 14, stabilityConfirmation 10, bandMult 2.
InitScenarios ==
    /\ scenario \in {"A", "B", "C", "D"}
    /\ InitObjects({ScenarioLength(scenario)}, {NoOptions}, {NoOptions}, {NoOptions})

NextScenarios == ScenarioInput \/ IndicatorThenSignals \/ SignalBar \/ BacktestBar

SpecScenarios == InitScenarios /\ [][NextScenarios]_vars

\* close[max(0, j - 10)..j] of scenario sc
LookbackAt(sc, j) ==
    LET from == Max(0, j - 10)
    IN  [k \in 1..(j - from + 1) |-> ScenarioClose(sc, from + k - 1)]

\* (max - min) / mean < 0.15 over the lookback of bar j
LookbackStableAt(sc, j) ==
    LET q == LookbackAt(sc, j)
    IN  100 * (SeqMax(q) - SeqMin(q)) * Len(q) < 15 * SeqSum(q)

\* the first bar at least 30 bars after startIdx whose lookback is stable
FirstStableBar(sc) ==
    LET ok == { j \in (StartIdx(indicator) + 30)..(ScenarioLength(sc) - 1) :
                  LookbackStableAt(sc, j) }
    IN  CHOOSE j \in ok : \A m \in ok : j <= m

C12_ScenarioA ==
    scenario = "A" =>
        /\ (pc \in {"sig", "bt"} /\ i >= StartIdx(indicator))
              => Last(mtr) = Bands(R(50), R(50), R(50))
        /\ \A k \in 1..Len(signals) : signals[k] = 0
        /\ signal = 0
        /\ trades = <<>>

\* The end of scenario A: 100 signals, 100 equity samples, bands written.
C12_Witness ==
    /\ scenario = "A"
    /\ pc = "done"
    /\ Len(signals) = 100
    /\ Len(equityCurve) = 100
    /\ Last(mtr) = Bands(R(50), R(50), R(50))
    /\ levels(strategy, Last(mtr).mtrUpper, Last(mtr).mtrLower).buyLvl.inf = 1

-----------------------------------------------------------------------------
(* A session of TradingSimulator calls *)

runVars == <<n, supplied, scenario, calls, firstClose, fresh, i, pc, bars, indVars, strategy, signals, signal, engine, btVars>>

\* the call ended as r says
Called(r) ==
    /\ sim' = r.sim
    /\ outcome' = [call |-> r.call, result |-> r.result]
    /\ UNCHANGED response
    /\ UNCHANGED runVars

LoadData ==
    /\ sim.serial < MaxStageOutputs
    /\ \E how \in {"ok", "cacheError", "saveError"} : Called(loadData(sim, how))

CalculateIndicator ==
    /\ sim.serial < MaxStageOutputs
    /\ \E params \in BOOLEAN : Called(calculateIndicator(sim, params))

GenerateSignals ==
    /\ sim.serial < MaxStageOutputs
    /\ \E params \in BOOLEAN : Called(generateSignals(sim, params))

RunBacktest ==
    /\ sim.serial < MaxStageOutputs
    /\ \E params \in BOOLEAN : Called(runBacktest(sim, params))

GetResults == Called(getResults(sim))

InitSimulator == InitRun({0}, {NoOptions}, {NoOptions}, {NoOptions})

NextSimulator ==
    LoadData \/ CalculateIndicator \/ GenerateSignals \/ RunBacktest \/ GetResults

\* any sequence of calls on one TradingSimulator
SpecSimulator == InitSimulator /\ [][NextSimulator]_vars

-----------------------------------------------------------------------------
(* The stage endpoints of server.js, for an initialized session *)

\* The handler's response once the simulator call r has ended:
\* res.json({ success: true, ... }) or res.status(500).json({ error })
Respond(r, status) ==
    /\ sim' = r.sim
    /\ outcome' = [call |-> r.call, result |-> r.result]
    /\ response' = status
    /\ UNCHANGED runVars

\* try { ... res.json(...) } catch (error) { res.status(500)... } around a
\* call whose result the handler uses as the method returned it
StatusOf(r) == IF r.result = "ok" THEN "success" ELSE "error"

\* POST /api/data/load: the call is awaited
PostDataLoad ==
    /\ sim.serial < MaxStageOutputs
    /\ \E how \in {"ok", "cacheError", "saveError"} :
          LET r == loadData(sim, how) IN Respond(r, StatusOf(r))

\* POST /api/indicator/calculate
PostIndicatorCalculate ==
    /\ sim.serial < MaxStageOutputs
    /\ \E params \in BOOLEAN :
          LET r == calculateIndicator(sim, params) IN Respond(r, StatusOf(r))

\* POST /api/signals/generate.  TradingSimulator.generateSignals is async and
\* the handler does not await it: the method body has run (it holds no await)
\* and `signals` is the promise, fulfilled or rejected; signals.filter is not
\* a function, the TypeError is caught and the response is the 500.
PostSignalsGenerate ==
    /\ sim.serial < MaxStageOutputs
    /\ \E params \in BOOLEAN :
          LET r == generateSignals(sim, params) IN Respond(r, "error")

\* POST /api/backtest/run
PostBacktestRun ==
    /\ sim.serial < MaxStageOutputs
    /\ \E params \in BOOLEAN :
          LET r == runBacktest(sim, params) IN Respond(r, StatusOf(r))

\* GET /api/results/:sessionId
GetResultsEndpoint ==
    LET r == getResults(sim) IN Respond(r, StatusOf(r))

NextServer ==
    PostDataLoad \/ PostIndicatorCalculate \/ PostSignalsGenerate
        \/ PostBacktestRun \/ GetResultsEndpoint

\* any sequence of requests of one session
SpecServer == InitSimulator /\ [][NextServer]_vars

\* C6 (as claimed): runBacktest succeeds only if the stored signals were
\* generated from the stored indicators and those indicators were computed
\* from the currently loaded market data.
C6_StageOrderingEnforced ==
    (outcome.call = "runBacktest" /\ outcome.result = "ok") =>
        /\ sim.signals.indicators = sim.indicators.id
        /\ sim.indicators.marketData = sim.marketData.id
        /\ sim.signals.marketData = sim.marketData.id

\* the stored output a call needs is missing
Missing(sm, call) ==
    CASE call = "calculateIndicator" -> sm.marketData = NullOutput
      [] call = "generateSignals"    -> sm.indicators = NullOutput
      [] call = "runBacktest"        -> sm.signals = NullOutput
      [] call = "getResults"         -> sm.backtestResults = NullOutput

\* C7: calculateIndicator without market data, generateSignals without
\* indicators, runBacktest without signals and getResults without backtest
\* results fail, and the failed call leaves marketData, indicators, signals
\* and backtestResults (and the rest of the simulator) as they were.
C7_PreconditionFailure ==
    [][ \A call \in {"calculateIndicator", "generateSignals", "runBacktest", "getResults"} :
            (outcome'.call = call /\ Missing(sim, call))
                => (outcome'.result = "error" /\ sim' = sim) ]_vars

\* runBacktest has just failed on a simulator that holds market data and
\* indicators but no signals.
C7_Witness ==
    /\ outcome = [call |-> "runBacktest", result |-> "error"]
    /\ sim.marketData # NullOutput
    /\ sim.indicators # NullOutput
    /\ sim.signals = NullOutput
    /\ sim.backtestResults = NullOutput

-----------------------------------------------------------------------------
(* Claims about BacktestEngine.backtest, checked under SpecEngine *)

price == close * CentsPerDollar

\* A BacktestBar step that appends exactly one trade to the ledger.
OneTradeAppended ==
    /\ pc = "bt"
    /\ Len(trades') = Len(trades) + 1

\* C1 (as claimed): on every bar that starts with the engine long and closes
\* at or below entryPrice * (1 - stopLossPct), the whole position is
\* liquidated on that bar and the engine is flat after it, whatever the bar's
\* signal is (0, NaN and 2 included).  The trade is a 'Stop Loss', or the
\* 'Sell Long' of the bar's own sell signal, which runs before the stop.
C1_StopLossWhateverSignal ==
    [][ (pc = "bt" /\ position > 0 /\ shares > 0
            /\ StopHit(strategy, entryPrice, price))
        => (/\ position' = 0
            /\ shares' = 0
            /\ Len(trades') = Len(trades) + 1
            /\ Last(trades').type = IF signal = -1 THEN "Sell Long" ELSE "Stop Loss"
            /\ Last(trades').shares = -shares
            /\ Last(trades').date = i) ]_vars

\* C2: the equity curve has one entry per processed bar (N after the run), an
\* entry is never changed after its bar, and the entry of the bar just
\* processed is capital + shares * close with the post-bar capital and shares.
C2_ConservationOfCash ==
    /\ [](Len(equityCurve) = i)
    /\ [](pc = "done" => Len(equityCurve) = n)
    /\ []((pc \in {"data", "done"} /\ i > 0)
            => equityCurve[i] = capital + shares * price)
    /\ [][SubSeq(equityCurve', 1, Len(equityCurve)) = equityCurve]_vars

\* A trade bar that ends long (post-trade equity) after an earlier bar.
C2_Witness ==
    /\ pc \in {"data", "done"}
    /\ i >= 3
    /\ shares > 0
    /\ trades # <<>>
    /\ Last(trades).date = i - 1
    /\ Last(trades).type = "Scale Out"

\* The largest q in 0..floor(cap/p) with q*p + max(q*cps, minCommission) <= cap
\* (0 when there is none).
MaxAffordable(eng, cap, p) ==
    LET ok == { q \in 1..(cap \div p) :
                  q * p + Max(q * eng.commissionPerShare, eng.minCommission) <= cap }
    IN  IF ok = {} THEN 0 ELSE CHOOSE q \in ok : \A r \in ok : r <= q

\* C4 (as claimed): a buy signal while flat opens a long of the largest
\* affordable share count whenever one exists.
C4_MaximalAffordableEntry ==
    [][ (pc = "bt" /\ signal = 1 /\ position = 0
            /\ MaxAffordable(engine, capital, price) >= 1)
        => (/\ position' = 1
            /\ shares' = MaxAffordable(engine, capital, price)
            /\ capital' >= 0) ]_vars

\* tax the engine owes on a closing trade t made from entry price e
TaxDue(eng, t, e) ==
    IF t.type = "Buy Long" THEN 0
    ELSE LET profit == (-t.shares) * (t.price - e)
         IN  IF profit > 0 THEN (profit * eng.taxRate) \div 100 ELSE 0

\* C5: every ledger trade records commission = max(|shares| * commissionPerShare,
\* minCommission), and the bar that appends it moves cash by the traded value
\* less exactly that commission (and the tax on a gain).
C5_CommissionFloor ==
    /\ [](\A k \in 1..Len(trades) :
            trades[k].commission =
                Max(Abs(trades[k].shares) * engine.commissionPerShare,
                    engine.minCommission))
    /\ [][ OneTradeAppended =>
            LET t == Last(trades')
            IN  capital' = capital - t.shares * t.price - t.commission
                                   - TaxDue(engine, t, entryPrice) ]_vars

\* A ledger with a trade charged per share and a trade charged the minimum.
C5_Witness ==
    /\ \E k \in 1..Len(trades) : trades[k].commission > engine.minCommission
    /\ \E k \in 1..Len(trades) :
            /\ trades[k].commission = engine.minCommission
            /\ trades[k].type = "Stop Loss"

Closing == {"Sell Long", "Scale Out", "Stop Loss"}

\* entry price of the position trade k of the ledger closes: the price of the
\* latest 'Buy Long' before it
EntryOf(k) ==
    LET buys == { j \in 1..(k - 1) : trades[j].type = "Buy Long" }
    IN  trades[CHOOSE j \in buys : \A m \in buys : m <= j].price

\* q * (p - e) of the closing trade k
GrossGain(k) == (-trades[k].shares) * (trades[k].price - EntryOf(k))

\* C13: the bar of a closing trade of q shares at price p, entered at e,
\* raises cash by exactly q*p - commission - taxRate * max(0, q*(p - e)); on
\* q*(p - e) <= 0 nothing is deducted as tax.
C13_TaxOnlyOnGains ==
    [][ (OneTradeAppended /\ Last(trades').type \in Closing) =>
            LET t    == Last(trades')
                q    == -t.shares
                gain == q * (t.price - entryPrice)
            IN  /\ t.price = price
                /\ capital' - capital =
                      q * t.price - t.commission
                          - (engine.taxRate * Max(0, gain)) \div 100
                /\ gain <= 0 => capital' - capital = q * t.price - t.commission ]_vars

\* A ledger with a close at a gain and a later close at a loss.
C13_Witness ==
    \E j, k \in 1..Len(trades) :
        /\ j < k
        /\ trades[j].type \in Closing
        /\ trades[k].type \in Closing
        /\ GrossGain(j) > 0
        /\ GrossGain(k) < 0

\* C14 (as claimed): every closing trade of the ledger records
\* pnl = q*(p - e) - commission - tax charged on it, and a run that ends flat
\* has the pnl of its ledger sum to final equity - initialCapital.
C14_PnlNetOfCommissionAndTax ==
    /\ \A k \in 1..Len(trades) :
          trades[k].type \in Closing =>
              trades[k].pnl = GrossGain(k) - trades[k].commission
                                - (engine.taxRate * Max(0, GrossGain(k))) \div 100
    /\ (pc = "done" /\ n >= 1 /\ shares = 0) =>
          SumOf(trades, "pnl") = Last(equityCurve) - engine.initialCapital

\* (finalEquity - initialCapital) / initialCapital * 100 of the finished run
ReturnPct(finalEquity) ==
    Rat((finalEquity - engine.initialCapital) * 100, engine.initialCapital)

\* C15 (as claimed): after every completed backtest over N >= 1 bars, runs
\* without a trade included, the metrics hold finalEquity = the last point of
\* the equity curve, totalReturn = (finalEquity - initialCapital) /
\* initialCapital * 100 and totalTrades = the length of the ledger.
C15_SummaryMetrics ==
    (pc = "done" /\ n >= 1) =>
        LET metrics == calculateMetrics(engine, trades, equityCurve)
        IN  /\ {"finalEquity", "totalReturn", "totalTrades"} \subseteq DOMAIN metrics
            /\ metrics.finalEquity = Last(equityCurve)
            /\ metrics.totalReturn = ReturnPct(Last(equityCurve))
            /\ metrics.totalTrades = Len(trades)

\* C18 (as claimed): after every completed backtest (N >= 1), also one
\* without trades, calculateBuyHoldComparison returns
\* finalEquity = s*lastClose + (initialCapital - s*firstClose - commission)
\* with s = floor(initialCapital / firstClose) and one commission charge, and
\* outperformance = strategy totalReturn - buy-and-hold totalReturn, every
\* returned value a defined number.
C18_BuyHoldBaseline ==
    (pc = "done" /\ n >= 1) =>
        LET cmp == calculateBuyHoldComparison(firstClose * CentsPerDollar, price,
                        calculateMetrics(engine, trades, equityCurve))
            first == firstClose * CentsPerDollar
            s     == engine.initialCapital \div first
            fee   == Max(s * engine.commissionPerShare, engine.minCommission)
            final == s * price + (engine.initialCapital - s * first - fee)
        IN  /\ ~isNaN(cmp.finalEquity) /\ ~isNaN(cmp.totalReturn)
            /\ ~isNaN(cmp.commission) /\ ~isNaN(cmp.outperformance)
            /\ cmp.finalEquity = R(final)
            /\ cmp.commission = R(fee)
            /\ cmp.totalReturn = ReturnPct(final)
            /\ cmp.outperformance =
                  RSub(ReturnPct(Last(equityCurve)), ReturnPct(final))

\* C19: a bar whose signal is 0 or NaN appends no trade and leaves cash,
\* shares, entry price and the position flag as they were; it only records
\* the bar's equity sample.
C19_HoldChangesNothing ==
    [][ (pc = "bt" /\ signal \in {0, NaNSignal}) =>
            /\ trades' = trades
            /\ capital' = capital
            /\ shares' = shares
            /\ entryPrice' = entryPrice
            /\ position' = position
            /\ equityCurve' = Append(equityCurve, capital + shares * price) ]_vars

\* After a NaN bar that closed below the stop level of the open position.
C19_Witness ==
    /\ pc \in {"data", "done"}
    /\ i >= 2
    /\ signal = NaNSignal
    /\ position = 1
    /\ shares > 0
    /\ StopHit(strategy, entryPrice, price)
    /\ Last(trades).date < i - 1
    /\ Len(equityCurve) = i

\* the entry is skipped: floor(cash / p) <= 0, or the shares and their
\* commission cost more than the cash
Unaffordable(cash, p) ==
    LET q == cash \div p
    IN  q <= 0 \/ q * p + Max(q * engine.commissionPerShare, engine.minCommission) > cash

\* C20: a buy signal while flat whose entry is skipped records no trade,
\* leaves cash, shares, entry price and the position flag unchanged, and the
\* run goes on to the next bar.
C20_SkippedEntryChangesNothing ==
    [][ (pc = "bt" /\ signal = 1 /\ position = 0 /\ Unaffordable(capital, price)) =>
            /\ trades' = trades
            /\ capital' = capital
            /\ shares' = shares
            /\ entryPrice' = entryPrice
            /\ position' = position
            /\ i' = i + 1
            /\ Len(equityCurve') = i'
            /\ pc' = IF i' < n THEN "data" ELSE "done" ]_vars

\* After a buy signal skipped for want of cash for one share, the earlier
\* trades having spent it; the run continues.
C20_Witness ==
    /\ pc = "data"
    /\ i >= 1
    /\ signal = 1
    /\ position = 0
    /\ trades # <<>>
    /\ Last(trades).date < i - 1
    /\ capital > 0
    /\ capital \div price = 0

-----------------------------------------------------------------------------
(* Claims about generateSignals and the composed run, under SpecSignals *)

\* signals[b] for bar index b (the array is 0-based in the source)
SignalAt(b) == signals[b + 1]

\* C3: after a buy or sell signal at bar j every signal at a bar k with
\* j < k < j + minDaysBetweenTrades is 0, and no two trades of the ledger of
\* the composed run are fewer than minDaysBetweenTrades bars apart.
C3_CooldownEnforcement ==
    /\ \A j, k \in 0..(Len(signals) - 1) :
          (SignalAt(j) \in {1, -1} /\ j < k
                /\ k < j + strategy.minDaysBetweenTrades)
            => SignalAt(k) = 0
    /\ \A a, b \in 1..Len(trades) :
          a < b => trades[b].date - trades[a].date >= strategy.minDaysBetweenTrades

\* A bar in the cooldown of a buy that reached the ledger, on which the rules
\* below the cooldown test would have sold (a cross down through the sell
\* level).
C3_Witness ==
    /\ pc = "bt"
    /\ i >= 2
    /\ Len(signals) = i + 1
    /\ SignalAt(i - 1) = 1
    /\ SignalAt(i) = 0
    /\ RegimeRules(strategy, i, R(bars[2].close), R(bars[1].close),
                   mtr[2].mtrUpper, mtr[2].mtrLower,
                   mtr[1].mtrUpper, mtr[1].mtrLower).sig = -1
    /\ Len(trades) >= 1
    /\ Last(trades).date = i - 1

\* C16 (as claimed): generateSignals returns exactly N values for an input of
\* N >= 0 bars, the value at index 0 is 0 when N >= 1, and every value is -1,
\* 0 or 1.
C16_SignalSeriesShape ==
    /\ pc = "done" => Len(signals) = n
    /\ (n >= 1 /\ signals # <<>>) => signals[1] = 0
    /\ \A k \in 1..Len(signals) : signals[k] \in {-1, 0, 1}

\* C17: every call of generateSignals on a strategy object that earlier calls
\* have used builds the signal array a newly constructed strategy of the same
\* configuration builds from the same input, and carries the same runtime
\* state (inPos, lastTradeIndex, prevUpper, prevLower) while it does.
C17_ResetPerCall ==
    /\ signals = fresh.signals
    /\ strategy = fresh.strategy

\* The end of a later call whose signals hold a buy and a sell.
C17_Witness ==
    /\ calls >= 1
    /\ pc = "done"
    /\ Len(signals) = n
    /\ \E j, k \in 1..Len(signals) : j < k /\ signals[j] = 1 /\ signals[k] = -1

-----------------------------------------------------------------------------
(* Claims about MTRIndicator.calculate, under SpecIndicator and SpecPipeline *)

Defined(b) == ~isNaN(b.mtrBase) /\ ~isNaN(b.mtrUpper) /\ ~isNaN(b.mtrLower)

\* C8: on a series of N <= max(serenityWindow, atrWindow) bars the indicator
\* leaves base, upper and lower NaN at every index, generateSignals emits 0 at
\* every bar, and the backtest records no trade and an equity of
\* initialCapital at every bar.
C8_InsufficientData ==
    n <= StartIdx(indicator) =>
        /\ \A k \in 1..Len(mtr) :
              isNaN(mtr[k].mtrBase) /\ isNaN(mtr[k].mtrUpper) /\ isNaN(mtr[k].mtrLower)
        /\ \A k \in 1..Len(signals) : signals[k] = 0
        /\ trades = <<>>
        /\ Len(equityCurve) = i
        /\ \A k \in 1..Len(equityCurve) : equityCurve[k] = engine.initialCapital

\* A finished run over exactly startIdx bars (the longest insufficient one).
C8_Witness ==
    /\ pc = "done"
    /\ n = StartIdx(indicator)
    /\ n >= 2
    /\ Len(mtr) = n
    /\ Len(signals) = n
    /\ Len(equityCurve) = n

\* C9: wherever base, upper and lower are defined, lower <= base <= upper.
C9_BandMonotonicBound ==
    \A k \in 1..Len(mtr) :
        Defined(mtr[k]) =>
            /\ RLe(mtr[k].mtrLower, mtr[k].mtrBase)
            /\ RLe(mtr[k].mtrBase, mtr[k].mtrUpper)

\* A bar on which the baseline has just changed, with bands of positive width.
C9_Witness ==
    /\ pc = "next"
    /\ i > StartIdx(indicator)
    /\ daysSinceLastChange = 0
    /\ ~REq(currentBaseline, startBands.mtrBase)
    /\ RLt(Last(mtr).mtrLower, Last(mtr).mtrBase)
    /\ RLt(Last(mtr).mtrBase, Last(mtr).mtrUpper)

\* C10: while every close from startIdx on is within 25% of the initial
\* baseline, base, upper and lower are the values they had at startIdx.
C10_BaselineStickiness ==
    (driftBounded /\ Defined(startBands)) =>
        \A k \in 1..Len(mtr) : Defined(mtr[k]) => mtr[k] = startBands

\* More than 30 bars after initialization, the closes stable and exactly 25%
\* away from the baseline: only the deviation test keeps the baseline.
C10_Witness ==
    /\ pc = "next"
    /\ driftBounded
    /\ daysSinceLastChange > 30
    /\ Stable(RecentPrices(indicator, bars))
    /\ REq(RAbs(RSub(R(close), currentBaseline)), RMul(Rat(25, 100), currentBaseline))
    /\ Last(mtr) = startBands

-----------------------------------------------------------------------------
(* Claims about the loop of MTRIndicator.calculate *)

\* the loop of calculate() is about to process bar i
Looping == pc = "ind" /\ n > StartIdx(indicator) /\ i >= StartIdx(indicator)

\* the baseline the iteration of bar i starts from
BaselineBefore ==
    IF i = StartIdx(indicator) THEN InitialLocals(indicator, bars).currentBaseline
    ELSE currentBaseline

\* index of the previous baseline change, startIdx if there was none
PreviousChange ==
    IF baselineChanges = <<>> THEN StartIdx(indicator)
    ELSE Last(baselineChanges).index

\* |close[i] - baseline| / baseline > 0.25
Deviates ==
    RGt(RAbs(RSub(R(close), BaselineBefore)), RMul(Rat(25, 100), BaselineBefore))

\* (max - min) / mean < 0.15 over the closes q
RatioBelow15(q) == 100 * (SeqMax(q) - SeqMin(q)) * Len(q) < 15 * SeqSum(q)

\* the k closes ending at bar i inclusive
LastCloses(k) == [j \in 1..k |-> bars[Len(bars) - k + j].close]

\* the iteration of bar i changes the baseline
ChangedAt == Len(baselineChanges') = Len(baselineChanges) + 1

\* the three conditions of a change, the third over the lookback the loop reads
ChangeConditions ==
    /\ Deviates
    /\ RatioBelow15(RecentPrices(indicator, bars))
    /\ i - PreviousChange >= 30

\* C24 (as claimed): the baseline changes at bar i exactly when the deviation
\* test and the stability test hold at i and i - c >= 30, c the index of the
\* previous change or startIdx; the threshold is the same after
\* initialization and after a change.
C24_BaselineChangeSpacing ==
    [][ Looping => (ChangedAt <=> ChangeConditions) ]_vars

\* C25 (as claimed): a change at bar i sets the baseline to the mean of
\* exactly the stabilityConfirmation closes ending at i, over which the
\* stability ratio is below 0.15, sets upper and lower to
\* newBase * (1 +- bandMult * atrPct[i]) and restarts the counter.
C25_BaselineChangeValue ==
    [][ (Looping /\ ChangedAt) =>
            LET lookback  == LastCloses(indicator.stabilityConfirmation)
                newBase   == Mean(lookback)
                bandWidth == RMul(R(indicator.bandMult), AtrPct(indicator, bars))
            IN  /\ RatioBelow15(lookback)
                /\ currentBaseline' = newBase
                /\ currentUpper' = RMul(newBase, RAdd(R(1), bandWidth))
                /\ currentLower' = RMul(newBase, RSub(R(1), bandWidth))
                /\ Last(mtr') = Bands(currentBaseline', currentUpper', currentLower')
                /\ daysSinceLastChange' = 0 ]_vars

-----------------------------------------------------------------------------
(* Claims about the loop of TradingStrategy.generateSignals *)

\* the loop of generateSignals() is about to process bar i
Generating == pc = "sig" /\ i >= 1

upper == Last(mtr).mtrUpper
lower == Last(mtr).mtrLower
prevUpper == mtr[Len(mtr) - 1].mtrUpper
prevLower == mtr[Len(mtr) - 1].mtrLower
prevClose == bars[Len(bars) - 1].close

BandsDefined == ~isNaN(upper) /\ ~isNaN(lower)

OutsideCooldown == i - strategy.lastTradeIndex >= strategy.minDaysBetweenTrades

\* C21 (as claimed): in the composed run, after every bar the generator's
\* inPos is true exactly when the engine is long.
C21_GeneratorAndEngineAgree ==
    (pc \in {"data", "done"} /\ i >= 1) => (strategy.inPos <=> position > 0)

RECURSIVE LastNonZero(_)
\* the latest buy or sell of a signal array, 0 if it has none
LastNonZero(q) ==
    IF q = <<>> THEN 0
    ELSE IF Last(q) # 0 THEN Last(q)
    ELSE LastNonZero(SubSeq(q, 1, Len(q) - 1))

\* C21 (amended): the flag follows the generator's own signals, not the
\* engine's trades: after every bar inPos is true exactly when the latest
\* non-zero signal emitted so far is a buy, and the engine is long only when
\* inPos is true.
C21_FlagFollowsSignals ==
    (pc \in {"data", "done"} /\ i >= 1) =>
        /\ strategy.inPos <=> LastNonZero(signals) = 1
        /\ position > 0 => strategy.inPos

\* After a buy signal whose entry the engine skipped for want of cash: the
\* generator is in position, the engine flat.
C21_Witness ==
    /\ pc \in {"data", "done"}
    /\ i >= 2
    /\ signal = 1
    /\ strategy.inPos
    /\ position = 0
    /\ trades = <<>>
    /\ capital \div price >= 1
    /\ (capital \div price) * price
          + Max((capital \div price) * engine.commissionPerShare, engine.minCommission)
          > capital

\* bar i's upper or lower band differs from bar i - 1's
DiffersFromPreviousBar ==
    \/ (~isNaN(prevUpper) /\ ~REq(upper, prevUpper))
    \/ (~isNaN(prevLower) /\ ~REq(lower, prevLower))

\* C22 (as claimed): outside the cooldown and with defined bands, a bar whose
\* bands differ from the previous bar's gets -1 if the generator is in
\* position and close < lower, 1 if it is flat and close > upper; every other
\* bar gets the signal of the ordinary rules.  Stated for the bars i >= 2,
\* whose previous bar the loop has processed.
C22_BandChangeReassessment ==
    [][ (Generating /\ i >= 2 /\ BandsDefined /\ OutsideCooldown /\ strategy.reassessOnBandChange) =>
            signal' =
                IF DiffersFromPreviousBar /\ strategy.inPos /\ RLt(R(close), lower)
                    THEN -1
                ELSE IF DiffersFromPreviousBar /\ ~strategy.inPos /\ RGt(R(close), upper)
                    THEN 1
                ELSE RegimeRules(strategy, i, R(close), R(prevClose), upper, lower,
                                 prevUpper, prevLower).sig ]_vars

\* a stored previous band that is no number (null or NaN)
Undefined(stored) == stored = Null \/ isNaN(stored)

\* C23 (as claimed): after a bar with an undefined band the stored previous
\* band is that undefined value, and on a following bar with defined bands no
\* band change is detected.
C23_PreviousBandTracksUndefined ==
    /\ (pc = "bt" /\ i >= 1) =>
            /\ isNaN(upper) => Undefined(strategy.prevUpper)
            /\ isNaN(lower) => Undefined(strategy.prevLower)
    /\ (Generating /\ i >= 2 /\ BandsDefined /\ (isNaN(prevUpper) \/ isNaN(prevLower))) =>
            ~bandChanged(strategy, upper, lower)

\* C27 (as claimed): after a bar with defined bands, outside the cooldown,
\* that closes below its lower band the generator is flat, and a flat
\* generator stays flat on every bar that closes below its lower band.
C27_ExitBelowLowerBand ==
    [][ (Generating /\ BandsDefined /\ RLt(R(close), lower)) =>
            /\ OutsideCooldown => ~strategy'.inPos
            /\ ~strategy.inPos => ~strategy'.inPos ]_vars

\* C28 (as claimed): after a bar with defined bands, outside the cooldown,
\* that closes above its upper band the generator is in position, and no
\* sell is emitted on a bar that closes above its upper band.
C28_LongAboveUpperBand ==
    [][ (Generating /\ BandsDefined /\ RGt(R(close), upper)) =>
            /\ OutsideCooldown => strategy'.inPos
            /\ signal' # -1 ]_vars

\* lower + insideMarginRatio * (upper - lower), upper - insideMarginRatio * (upper - lower)
BuyLevel == RAdd(lower, RMul(Rat(strategy.insideMarginRatio, 100), RSub(upper, lower)))
SellLevel == RSub(upper, RMul(Rat(strategy.insideMarginRatio, 100), RSub(upper, lower)))

InsideBand == RLe(lower, R(close)) /\ RLe(R(close), upper)

\* C29: a buy is emitted only on close >= lower and a sell only on
\* close <= upper; a buy inside the band has previous close < buyLevel <= close
\* and a sell inside the band has previous close > sellLevel >= close.
C29_SignalsRespectRegime ==
    (pc = "bt" /\ signal \in {1, -1}) =>
        /\ signal = 1 => RGe(R(close), lower)
        /\ signal = -1 => RLe(R(close), upper)
        /\ (signal = 1 /\ InsideBand) =>
              RLt(R(prevClose), BuyLevel) /\ RLe(BuyLevel, R(close))
        /\ (signal = -1 /\ InsideBand) =>
              RGt(R(prevClose), SellLevel) /\ RGe(SellLevel, R(close))

\* A sell inside a band of positive width, after an earlier buy.
C29_Witness ==
    /\ pc = "bt"
    /\ i >= 2
    /\ signal = -1
    /\ InsideBand
    /\ RLt(lower, upper)
    /\ \E k \in 1..(Len(signals) - 1) : signals[k] = 1

\* C30: a bar with signal 2 while long with s > 0 shares sells
\* min(s, max(1, floor(s * 0.5))) shares at the close in one 'Scale Out' trade,
\* keeps the entry price, and leaves the engine flat exactly when no share is
\* left.
C30_ScaleOutMechanics ==
    [][ (pc = "bt" /\ signal = 2 /\ position > 0 /\ shares > 0) =>
            LET q == Min(shares, Max(1, shares \div 2))
            IN  /\ Len(trades') = Len(trades) + 1
                /\ SubSeq(trades', 1, Len(trades)) = trades
                /\ Last(trades').type = "Scale Out"
                /\ Last(trades').shares = -q
                /\ Last(trades').price = price
                /\ Last(trades').date = i
                /\ shares' = shares - q
                /\ entryPrice' = entryPrice
                /\ position' = IF shares' = 0 THEN 0 ELSE position ]_vars

\* After the scale-out of a one-share position: flat, the last trade a
\* 'Scale Out' of that share.
C30_Witness ==
    /\ pc \in {"data", "done"}
    /\ signal = 2
    /\ trades # <<>>
    /\ Last(trades).type = "Scale Out"
    /\ Last(trades).shares = -1
    /\ Last(trades).date = i - 1
    /\ shares = 0
    /\ position = 0

-----------------------------------------------------------------------------
(* Claims about the engine's position state and ledger *)

\* the bar leaves the ledger, the cash, the shares and the entry price alone
NoTradeNoChange ==
    /\ trades' = trades
    /\ capital' = capital
    /\ shares' = shares
    /\ entryPrice' = entryPrice

\* C31: a buy signal while long (close above the stop level), and a sell or
\* scale-out signal while flat, append no trade and leave cash, shares and
\* entry price unchanged; no bar enlarges a long position.
C31_InapplicableSignalsAreNoOps ==
    [][ pc = "bt" =>
            /\ (signal = 1 /\ position > 0 /\ ~StopHit(strategy, entryPrice, price))
                    => NoTradeNoChange
            /\ (signal \in {-1, 2} /\ position = 0) => NoTradeNoChange
            /\ position > 0 => shares' <= shares ]_vars

\* After a buy signal on a bar that found the engine long: the position is
\* the one of the earlier purchase.
C31_Witness ==
    /\ pc \in {"data", "done"}
    /\ i >= 2
    /\ signal = 1
    /\ position > 0
    /\ Last(trades).type = "Buy Long"
    /\ Last(trades).date < i - 1
    /\ shares = Last(trades).shares

\* the price of the most recent 'Buy Long' of the ledger
LastBuyPrice ==
    LET buys == {k \in 1..Len(trades) : trades[k].type = "Buy Long"}
    IN  trades[CHOOSE k \in buys : \A j \in buys : j <= k].price

\* C34: shares is a non-negative integer, the engine is long exactly when
\* shares > 0 and never short, shares is the sum of the signed share deltas of
\* the ledger, and while long the entry price is the price of the most recent
\* 'Buy Long'.
C34_PositionAndLedgerConsistent ==
    /\ shares \in Nat
    /\ position \in {0, 1}
    /\ position > 0 <=> shares > 0
    /\ shares = SumOf(trades, "shares")
    /\ position > 0 => entryPrice = LastBuyPrice

\* Long with what a scale-out left of a purchase, after an earlier round trip.
C34_Witness ==
    /\ Len(trades) >= 4
    /\ Last(trades).type = "Scale Out"
    /\ position > 0
    /\ shares > 0
    /\ shares < trades[Len(trades) - 1].shares
    /\ trades[1].price # entryPrice

\* C35: the ledger holds at most one trade per bar and is ordered by bar
\* index.
C35_AtMostOneTradePerBar ==
    \A j, k \in 1..Len(trades) : j < k => trades[j].date < trades[k].date

\* A sell signal on a bar that closes at or below the stop level: the one
\* trade of the bar is the 'Sell Long'.
C35_Witness ==
    /\ Len(trades) >= 2
    /\ Last(trades).type = "Sell Long"
    /\ trades[Len(trades) - 1].type = "Buy Long"
    /\ StopHit(strategy, trades[Len(trades) - 1].price, Last(trades).price)

-----------------------------------------------------------------------------
(* Claims about the signals array and the ledger of a pipeline run *)

RECURSIVE NonZero(_)
\* the non-zero entries of a signals array, in order
NonZero(q) ==
    IF q = <<>> THEN <<>>
    ELSE IF Head(q) = 0 THEN NonZero(Tail(q))
    ELSE <<Head(q)>> \o NonZero(Tail(q))

\* C32: the non-zero entries of the array generateSignals builds alternate
\* 1, -1, 1, -1, ... starting with 1.
C32_SignalsAlternate ==
    LET nz == NonZero(signals)
    IN  \A k \in 1..Len(nz) : nz[k] = IF k % 2 = 1 THEN 1 ELSE -1

\* A buy followed by a sell in the array.
C32_Witness ==
    /\ Len(NonZero(signals)) >= 2
    /\ NonZero(signals)[1] = 1
    /\ NonZero(signals)[2] = -1

\* C36: the ledger of a pipeline run holds 'Buy Long' and 'Sell Long' trades
\* only, alternating from a 'Buy Long', each on a bar whose signal is not 0.
C36_PipelineLedger ==
    /\ [](\A k \in 1..Len(trades) :
            trades[k].type = IF k % 2 = 1 THEN "Buy Long" ELSE "Sell Long")
    /\ [][ OneTradeAppended => signal # 0 ]_vars
    /\ [][ pc = "bt" => Len(trades') <= Len(trades) + 1 ]_vars

\* A round trip whose sell closes at or below the stop level of the entry.
C36_Witness ==
    /\ Len(trades) = 2
    /\ trades[1].type = "Buy Long"
    /\ trades[2].type = "Sell Long"
    /\ StopHit(strategy, trades[1].price, trades[2].price)

\* the metrics of the ledger so far
Metrics == calculateMetrics(engine, trades, equityCurve)

\* C37: every 'Buy Long' is recorded with pnl = -commission and never wins,
\* winRate is the winning trades over all ledger trades, and on a pipeline
\* run at most half of the trades win.
C37_EntriesCountAgainstWinRate ==
    /\ \A k \in 1..Len(trades) :
            trades[k].type = "Buy Long" =>
                (trades[k].pnl = -trades[k].commission /\ ~(trades[k].pnl > 0))
    /\ LET won == {k \in 1..Len(trades) : trades[k].pnl > 0}
       IN  /\ 2 * Cardinality(won) <= Len(trades)
           /\ trades # <<>> /\ equityCurve # <<>> =>
                /\ Metrics.winningTrades = Cardinality(won)
                /\ Metrics.totalTrades = Len(trades)
                /\ Metrics.winRate = Rat(100 * Cardinality(won), Len(trades))
                /\ RLe(Metrics.winRate, R(50))

\* A round trip at a gain: one winning trade of two, winRate 50%.
C37_Witness ==
    /\ Len(trades) = 2
    /\ trades[2].pnl > 0
    /\ Metrics.winRate = R(50)

-----------------------------------------------------------------------------
(* Claims about the engine's cash *)

\* C33 (as claimed): the engine's cash balance is >= 0 after every bar.
C33_CashNeverNegative == capital >= 0

\* the exit k of the ledger brought in less than the commission charged on it
CostlyExit(k) ==
    /\ trades[k].type \in Closing
    /\ (-trades[k].shares) * trades[k].price < trades[k].commission

\* C33 (amended): no entry overdraws the cash, and the cash balance is >= 0
\* after every bar unless the ledger holds an exit whose proceeds are smaller
\* than the commission charged on it.
C33_CashNegativeOnlyAfterCostlyExit ==
    /\ [](capital < 0 => \E k \in 1..Len(trades) : CostlyExit(k))
    /\ [][ (OneTradeAppended /\ Last(trades').type = "Buy Long") =>
                (capital >= 0 /\ capital' >= 0) ]_vars

\* Negative cash after the sale of one share for less than the minimum
\* commission.
C33_Witness ==
    /\ pc \in {"data", "done"}
    /\ capital < 0
    /\ position = 0
    /\ Last(trades).type \in Closing
    /\ Last(trades).date = i - 1
    /\ -Last(trades).shares * Last(trades).price < Last(trades).commission

-----------------------------------------------------------------------------
(* Claims about configured values *)

\* C38 (as claimed): the commission calculateBuyHoldComparison charges is
\* max(s * commissionPerShare, minCommission) of the engine that produced the
\* strategy result, s = floor(initialCapital / firstClose).  Stated for the
\* runs that made a trade.
C38_BuyHoldUsesEngineCommission ==
    (pc = "done" /\ n >= 1 /\ trades # <<>>) =>
        LET cmp == calculateBuyHoldComparison(firstClose * CentsPerDollar, price, Metrics)
            s   == engine.initialCapital \div (firstClose * CentsPerDollar)
        IN  cmp.commission = R(calculateCommission(engine, s))

\* the value the options object o supplies for f, d if it supplies none
SuppliedOr(o, f, d) == IF f \in DOMAIN o THEN o[f] ELSE d

\* what the engine was given, the defaults for absent options
SuppliedPerShare == SuppliedOr(supplied.engine, "commissionPerShare", 1)
SuppliedFloor == SuppliedOr(supplied.engine, "minCommission", 7 * CentsPerDollar)
SuppliedRate == SuppliedOr(supplied.engine, "taxRate", 25)

\* C39 (as claimed): the engine and the strategy hold the supplied
\* commissionPerShare, minCommission, taxRate, minDaysBetweenTrades and
\* insideMarginRatio, zeros included, and the defaults only for absent
\* options; every closing trade is charged the supplied commission and tax.
C39_ConfiguredValuesHonoured ==
    /\ [](/\ engine.commissionPerShare = SuppliedPerShare
          /\ engine.minCommission = SuppliedFloor
          /\ engine.taxRate = SuppliedRate
          /\ strategy.minDaysBetweenTrades =
                SuppliedOr(supplied.strategy, "minDaysBetweenTrades", 2)
          /\ strategy.insideMarginRatio =
                SuppliedOr(supplied.strategy, "insideMarginRatio", 10))
    /\ [][ (OneTradeAppended /\ Last(trades').type \in Closing) =>
            LET q    == -Last(trades').shares
                gain == q * (price - entryPrice)
            IN  capital' - capital =
                    q * price - Max(q * SuppliedPerShare, SuppliedFloor)
                        - (SuppliedRate * Max(0, gain)) \div 100 ]_vars

-----------------------------------------------------------------------------
(* Claims about the stage endpoints *)

\* the stored output the stage of a call writes
StageOutput(sm, call) ==
    CASE call = "loadData"           -> sm.marketData
      [] call = "calculateIndicator" -> sm.indicators
      [] call = "generateSignals"    -> sm.signals
      [] call = "runBacktest"        -> sm.backtestResults
      [] OTHER                       -> NullOutput

\* C40 (as claimed): a signals request on a session whose indicators exist is
\* answered with success, and a stage request is answered with an error only
\* if the stage left the session's stored output as it was.
C40_ResponsesMatchOutcomes ==
    [][ /\ (outcome'.call = "generateSignals" /\ sim.indicators # NullOutput)
            => response' = "success"
        /\ response' = "error"
            => StageOutput(sim', outcome'.call) = StageOutput(sim, outcome'.call) ]_vars

=============================================================================
